---- MODULE Spec2Model ----
(***************************************************************************)
(* Orchestration core of the ZhiShu platform:                              *)
(*   - the DAG workflow engine  (project/src/workflow/engine.py)           *)
(*   - the MCP client framework (project/src/MCP/client_framework.py)      *)
(* Both run on one asyncio event loop: the code between two awaits is one  *)
(* atomic step, and every action below is one such stretch of code.        *)
(***************************************************************************)
EXTENDS Integers, Sequences, FiniteSets, TLC

\* ------------------------------------------------------------------ bounds

\* Instances created by start_workflow (uuid4 ids, modelled as 1..MaxInstances).
MaxInstances == 1
\* execute_workflow calls made in total.
MaxExecutions == 2
\* The scan-pass counter saturates here (a cyclic graph is scanned forever).
MaxPasses == 5
\* call_service calls in flight at once.
MaxCalls == 1
\* Status polls one call makes before its timeout has elapsed.
MaxPolls == 2
\* Live processes of one service that the manager has lost track of.
MaxOrphans == 2
\* error_count is not incremented beyond this.
MaxErrorCount == 3

\* ------------------------------------------------------------ engine state

VARIABLES
    workflow_definitions,   \* name -> list of step templates
    workflow_instances,     \* instance id -> WorkflowInstance
    running_instances,      \* instance id -> asyncio.Task (never filled)
    exec,                   \* instance id -> frame of its execute_workflow call
    executions,             \* execute_workflow calls made so far
    start_call,             \* the last start_workflow call: its argument and
                            \* how it ended (the id returned, or a raise)
    cancel_call             \* the last cancel_workflow call: its argument and
                            \* the value it returned

engineVars == <<workflow_definitions, workflow_instances, running_instances,
                exec, executions, start_call, cancel_call>>

\* ------------------------------------------------------------ client state

VARIABLES
    services,   \* service name -> ServiceEndpoint (status, error_count)
    calls,      \* call id -> frame of a call_service call: where it is
                \* ("post": POST /execute sent, "poll": GET /status sent),
                \* its arguments, the status polls it has sent so far, the
                \* last answer it got, and its result
    probes,     \* service name -> where its health_check call is
    health_checker  \* frame of the background task health_checker: where it
                    \* is and the position in the services of the probe it
                    \* awaits

clientVars == <<services, calls, probes, health_checker>>

\* ------------------------------------------------- MCPClient (core) state

VARIABLES
    tool_call   \* frame of a call on an MCPClient: the function called and
                \* its arguments, where it is, the status polls sent, the
                \* MCPResponse returned

coreVars == <<tool_call>>

\* ------------------------------------------------- service manager state

VARIABLES
    model_services  \* MCPServiceManager.services: service name -> ModelService
                    \* (status, the process its `process` field refers to)
                    \* with the number of live processes spawned for the
                    \* service that the field no longer refers to

managerVars == <<model_services>>

vars == <<engineVars, clientVars, coreVars, managerVars>>

\* StepStatus and WorkflowStatus values.
StepStatus == {"pending", "running", "completed", "failed", "cancelled"}
WorkflowStatus == {"pending", "running", "completed", "failed", "cancelled"}

\* The ids of the steps of a definition, in list order.
StepIds == <<"step_1", "step_2", "step_3">>
StepIdSet == {StepIds[k] : k \in 1..Len(StepIds)}
\* Their step types, those of the first steps of the predefined workflow
\* comprehensive_disaster_assessment.
StepTypes == <<"data_fetch", "parallel_mcp_calls", "data_integration">>
\* The "services" parameter of the parallel_mcp_calls step.
FanOutServices == <<"nfdrs4", "lisflood", "climada">>

WorkflowName == "wf"
\* A name that is not registered.
UnknownWorkflow == "nosuch"

\* The step templates of a definition: ids and declared dependencies. Every
\* relation in which a step depends on any of the other steps is a possible
\* definition: the chains of the predefined workflows, fans, diamonds, and
\* graphs with a cycle of two or three steps beside or behind free steps.
WorkflowDefinition ==
    {[k \in 1..Len(StepIds) |->
         [id |-> StepIds[k], step_type |-> StepTypes[k], dependencies |-> d[k]]] :
        d \in {e \in [1..Len(StepIds) -> SUBSET StepIdSet] :
                  \A k \in 1..Len(StepIds) : StepIds[k] \notin e[k]}}

\* WorkflowStep without the copy of the dependencies.
WorkflowStepNoDependencies(step_def) ==
    [id |-> step_def.id, step_type |-> step_def.step_type,
     dependencies |-> {},
     status |-> "pending", result |-> "none", results |-> << >>,
     error |-> "none"]

\* WorkflowStep whose dependencies get the id of a step of no definition.
WorkflowStepForeignDependency(step_def) ==
    [id |-> step_def.id, step_type |-> step_def.step_type,
     dependencies |-> step_def.dependencies \cup {"step_0"},
     status |-> "pending", result |-> "none", results |-> << >>,
     error |-> "none"]

\* WorkflowStep(...) as start_workflow builds it from a template.
WorkflowStep(step_def) ==
    [id |-> step_def.id, step_type |-> step_def.step_type,
     dependencies |-> step_def.dependencies,
     status |-> "pending", result |-> "none", results |-> << >>,
     error |-> "none"]

\* WorkflowInstance(...) as start_workflow builds it.
WorkflowInstance(name, steps) ==
    [workflow_name |-> name, steps |-> steps, status |-> "pending",
     current_step |-> "none"]

\* The frame of an execute_workflow call that has not been made.
IdleFrame ==
    [pc |-> "idle", completed_steps |-> {}, pos |-> 0, passes |-> 0,
     dispatched |-> 0]

InitEngine ==
    /\ workflow_definitions \in [{WorkflowName} -> WorkflowDefinition]
    /\ workflow_instances = << >>
    /\ running_instances = << >>
    /\ exec = << >>
    /\ executions = 0
    /\ start_call = [workflow_name |-> "none", raised |-> FALSE, instance_id |-> 0]
    /\ cancel_call = [called |-> FALSE, instance_id |-> 0, returned |-> FALSE]

\* ------------------------------------------------------- engine operations

Min(S) == CHOOSE x \in S : \A y \in S : x <= y

\* StartWorkflow without the test of the name: an unregistered name gets an
\* instance without steps.
StartWorkflowUnchecked(name) ==
    /\ Len(workflow_instances) < MaxInstances
    /\ LET definition == IF name \in DOMAIN workflow_definitions
                         THEN workflow_definitions[name] ELSE << >>
           steps == [k \in 1..Len(definition) |-> WorkflowStep(definition[k])]
       IN  /\ workflow_instances' =
                Append(workflow_instances, WorkflowInstance(name, steps))
           /\ exec' = Append(exec, IdleFrame)
           /\ start_call' = [workflow_name |-> name, raised |-> FALSE,
                             instance_id |-> Len(workflow_instances) + 1]
    /\ UNCHANGED <<workflow_definitions, running_instances, executions, cancel_call, clientVars, coreVars, managerVars>>

\* start_workflow(workflow_name, parameters): ValueError for a name that is
\* not registered, else a new Pending instance with a copy of the steps of
\* the definition, whose id is returned. The call that raises reads only
\* workflow_definitions, which nothing writes, so its place among the other
\* calls makes no difference: it is made before the first execute_workflow.
StartWorkflow(name) ==
    IF name \notin DOMAIN workflow_definitions
    THEN /\ executions = 0
         /\ start_call' = [workflow_name |-> name, raised |-> TRUE,
                           instance_id |-> 0]
         /\ UNCHANGED <<workflow_definitions, workflow_instances,
                        running_instances, exec, executions, cancel_call, clientVars, coreVars, managerVars>>
    ELSE /\ Len(workflow_instances) < MaxInstances
         /\ LET definition == workflow_definitions[name]
                steps == [k \in 1..Len(definition) |-> WorkflowStep(definition[k])]
            IN  /\ workflow_instances' =
                     Append(workflow_instances, WorkflowInstance(name, steps))
                /\ exec' = Append(exec, IdleFrame)
                /\ start_call' = [workflow_name |-> name, raised |-> FALSE,
                                  instance_id |-> Len(workflow_instances) + 1]
         /\ UNCHANGED <<workflow_definitions, running_instances, executions,
                        cancel_call, clientVars, coreVars, managerVars>>

\* Eligible with any() where the code has all().
EligibleAny(instance, completed_steps, k) ==
    /\ instance.steps[k].id \notin completed_steps
    /\ \/ instance.steps[k].dependencies = {}
       \/ instance.steps[k].dependencies \cap completed_steps # {}

\* all(dep in completed_steps for dep in step.dependencies), for a step the
\* for loop has not skipped as already completed.
Eligible(instance, completed_steps, k) ==
    /\ instance.steps[k].id \notin completed_steps
    /\ instance.steps[k].dependencies \subseteq completed_steps

\* Scan without the deadlock check: a pass that finds no step sleeps.
ScanNoDeadlockCheck(instance, frame, from) ==
    LET cands == {k \in from..Len(instance.steps) :
                     Eligible(instance, frame.completed_steps, k)}
    IN  IF cands # {}
        THEN [instance |-> [instance EXCEPT !.steps[Min(cands)].status = "running"],
              frame |-> [frame EXCEPT !.pc = "handler", !.pos = Min(cands),
                                      !.dispatched = @ + 1]]
        ELSE [instance |-> instance,
              frame |-> [frame EXCEPT !.pc = "sleep", !.pos = 0]]

\* The for loop over instance.steps from position `from` up to the next await:
\* the first eligible step is set Running by _execute_step and its handler is
\* awaited; with none left the pass ends, in the deadlock check (nothing was
\* ever completed: Failed, return) or in asyncio.sleep(0.1).
Scan(instance, frame, from) ==
    LET cands == {k \in from..Len(instance.steps) :
                     Eligible(instance, frame.completed_steps, k)}
    IN  IF cands # {}
        THEN [instance |-> [instance EXCEPT !.steps[Min(cands)].status = "running"],
              frame |-> [frame EXCEPT !.pc = "handler", !.pos = Min(cands),
                                      !.dispatched = @ + 1]]
        ELSE IF frame.completed_steps = {}
        THEN [instance |-> [instance EXCEPT !.status = "failed"],
              frame |-> [frame EXCEPT !.pc = "returned", !.pos = 0]]
        ELSE [instance |-> instance,
              frame |-> [frame EXCEPT !.pc = "sleep", !.pos = 0]]

\* Loop with the while condition off by one: the last step is not waited for.
LoopShort(instance, frame) ==
    IF Cardinality(frame.completed_steps) + 1 < Len(instance.steps)
    THEN Scan(instance,
              [frame EXCEPT !.passes = IF @ < MaxPasses THEN @ + 1 ELSE @,
                            !.dispatched = 0],
              1)
    ELSE [instance |-> [instance EXCEPT !.status = "completed"],
          frame |-> [frame EXCEPT !.pc = "returned", !.pos = 0]]

\* Loop with <= where the code has <: the loop is entered once more.
LoopLong(instance, frame) ==
    IF Cardinality(frame.completed_steps) <= Len(instance.steps)
    THEN Scan(instance,
              [frame EXCEPT !.passes = IF @ < MaxPasses THEN @ + 1 ELSE @,
                            !.dispatched = 0],
              1)
    ELSE [instance |-> [instance EXCEPT !.status = "completed"],
          frame |-> [frame EXCEPT !.pc = "returned", !.pos = 0]]

\* The head of the while loop: another pass while fewer steps are completed
\* than the instance has, else the instance is Completed.
Loop(instance, frame) ==
    IF Cardinality(frame.completed_steps) < Len(instance.steps)
    THEN Scan(instance,
              [frame EXCEPT !.passes = IF @ < MaxPasses THEN @ + 1 ELSE @,
                            !.dispatched = 0],
              1)
    ELSE [instance |-> [instance EXCEPT !.status = "completed"],
          frame |-> [frame EXCEPT !.pc = "returned", !.pos = 0]]

InProgress(i) == exec[i].pc \in {"handler", "sleep"}

\* execute_workflow(instance_id) up to its first await. The API schedules it
\* once per instance; a direct caller may call it again once it has returned.
ExecuteWorkflow(i) ==
    /\ i \in DOMAIN workflow_instances
    /\ ~InProgress(i)
    /\ executions < MaxExecutions
    /\ LET r == Loop([workflow_instances[i] EXCEPT !.status = "running"],
                     [IdleFrame EXCEPT !.pc = "start"])
       IN  /\ workflow_instances' = [workflow_instances EXCEPT ![i] = r.instance]
           /\ exec' = [exec EXCEPT ![i] = r.frame]
    /\ executions' = executions + 1
    /\ UNCHANGED <<workflow_definitions, running_instances, start_call, cancel_call, clientVars, coreVars, managerVars>>

\* _execute_single_mcp_call(service, tool, {}): a sleep, then a result that
\* names the service; no request is made and no registry is read.
ExecuteSingleMcpCall(service) == [service |-> service, outcome |-> "result"]

\* _execute_parallel_mcp_calls_step: the "results" of its return value, what
\* asyncio.gather(..., return_exceptions=True) gives for one
\* _execute_single_mcp_call per service; empty for the other step types.
ParallelResults(step) ==
    IF step.step_type = "parallel_mcp_calls"
    THEN [n \in 1..Len(FanOutServices) |-> ExecuteSingleMcpCall(FanOutServices[n])]
    ELSE << >>

\* The awaited handler returns: _execute_step stores the result and sets
\* Completed, execute_workflow adds the id to completed_steps, sets
\* current_step and goes on with the for loop.
HandlerReturn(i) ==
    /\ i \in DOMAIN workflow_instances
    /\ exec[i].pc = "handler"
    /\ LET k == exec[i].pos
           step == workflow_instances[i].steps[k]
           r == Scan([workflow_instances[i] EXCEPT
                          !.steps[k].result = "result",
                          !.steps[k].results = ParallelResults(step),
                          !.steps[k].status = "completed",
                          !.current_step = step.id],
                     [exec[i] EXCEPT !.completed_steps = @ \cup {step.id}],
                     k + 1)
       IN  /\ workflow_instances' = [workflow_instances EXCEPT ![i] = r.instance]
           /\ exec' = [exec EXCEPT ![i] = r.frame]
    /\ UNCHANGED <<workflow_definitions, running_instances, executions,
                   start_call, cancel_call, clientVars, coreVars, managerVars>>

\* HandlerRaise with the exception swallowed in _execute_step: the step is
\* Failed and the for loop goes on.
HandlerRaiseSwallowed(i) ==
    /\ i \in DOMAIN workflow_instances
    /\ exec[i].pc = "handler"
    /\ LET k == exec[i].pos
           r == Scan([workflow_instances[i] EXCEPT
                          !.steps[k].error = "error",
                          !.steps[k].status = "failed"],
                     [exec[i] EXCEPT
                          !.completed_steps = @ \cup {workflow_instances[i].steps[k].id}],
                     k + 1)
       IN  /\ workflow_instances' = [workflow_instances EXCEPT ![i] = r.instance]
           /\ exec' = [exec EXCEPT ![i] = r.frame]
    /\ UNCHANGED <<workflow_definitions, running_instances, executions,
                   start_call, cancel_call, clientVars, coreVars, managerVars>>

\* The awaited handler raises (an unsupported step type raises ValueError):
\* _execute_step records the error, sets Failed and re-raises; execute_workflow
\* sets the instance Failed and re-raises.
HandlerRaise(i) ==
    /\ i \in DOMAIN workflow_instances
    /\ exec[i].pc = "handler"
    /\ LET k == exec[i].pos
       IN  /\ workflow_instances' = [workflow_instances EXCEPT
                  ![i].steps[k].error = "error",
                  ![i].steps[k].status = "failed",
                  ![i].status = "failed"]
           /\ exec' = [exec EXCEPT ![i].pc = "raised"]
    /\ UNCHANGED <<workflow_definitions, running_instances, executions,
                   start_call, cancel_call, clientVars, coreVars, managerVars>>

\* asyncio.sleep(0.1) at the end of a pass is over: back to the while head.
Wake(i) ==
    /\ i \in DOMAIN workflow_instances
    /\ exec[i].pc = "sleep"
    /\ LET r == Loop(workflow_instances[i], exec[i])
       IN  /\ workflow_instances' = [workflow_instances EXCEPT ![i] = r.instance]
           /\ exec' = [exec EXCEPT ![i] = r.frame]
    /\ UNCHANGED <<workflow_definitions, running_instances, executions,
                   start_call, cancel_call, clientVars, coreVars, managerVars>>

\* CancelWorkflow without the test of the status: a Completed or Failed
\* instance is cancelled too.
CancelWorkflowUnchecked(i) ==
    IF i \notin DOMAIN workflow_instances
    THEN UNCHANGED <<workflow_definitions, workflow_instances,
                     running_instances, exec, executions, start_call,
                     clientVars, coreVars, managerVars>>
    ELSE /\ workflow_instances' =
               [workflow_instances EXCEPT ![i].status = "cancelled"]
         /\ running_instances' =
               [j \in DOMAIN running_instances \ {i} |-> running_instances[j]]
         /\ UNCHANGED <<workflow_definitions, exec, executions, start_call,
                        clientVars, coreVars, managerVars>>

\* cancel_workflow(instance_id), what it writes: nothing for an id that is
\* not an instance and for an instance that is Completed or Failed; else
\* the status becomes Cancelled. The task is looked up in running_instances,
\* which nothing ever fills.
CancelWorkflow(i) ==
    IF \/ i \notin DOMAIN workflow_instances
       \/ workflow_instances[i].status \in {"completed", "failed"}
    THEN UNCHANGED <<workflow_definitions, workflow_instances,
                     running_instances, exec, executions, start_call,
                     clientVars, coreVars, managerVars>>
    ELSE /\ workflow_instances' =
               [workflow_instances EXCEPT ![i].status = "cancelled"]
         /\ running_instances' =
               [j \in DOMAIN running_instances \ {i} |-> running_instances[j]]
         /\ UNCHANGED <<workflow_definitions, exec, executions, start_call,
                        clientVars, coreVars, managerVars>>

\* cancel_workflow(instance_id), what it returns.
CancelReturn(i) ==
    /\ i \in DOMAIN workflow_instances
    /\ workflow_instances[i].status \notin {"completed", "failed"}

\* A cancel_workflow call whose caller keeps the returned value, as the
\* cancel endpoint of the API does.
CancelWorkflowCall(i) ==
    /\ CancelWorkflow(i)
    /\ cancel_call' = [called |-> TRUE, instance_id |-> i,
                       returned |-> CancelReturn(i)]

\* ------------------------------------------------------- client operations

\* ServiceEndpoint.max_errors.
max_errors == 3

\* Registered service names (two of _create_default_services) and a name
\* that is not registered.
ServiceNames == {"climada", "lisflood"}
UnknownService == "nosuch"

CallIds == 1..MaxCalls

\* The (service_name, tool_name) arguments callers pass: each registered
\* service with its tool (as the predefined workflows name them), and a tool
\* of a service that is not registered.
Requests ==
    {[service_name |-> "climada", tool_name |-> "climada_risk_quantification"],
     [service_name |-> "lisflood", tool_name |-> "lisflood_flood_risk_assessment"],
     [service_name |-> UnknownService, tool_name |-> "nfdrs4_fire_risk_assessment"]}

\* max_tries of the backoff.on_exception decorator of call_service.
max_tries == 3

\* MCPCallResult(success, data, error, execution_id); service_name and
\* tool_name default to None.
MCPCallResult(success, data, error, execution_id) ==
    [success |-> success, data |-> data, error |-> error,
     execution_id |-> execution_id, service_name |-> "none",
     tool_name |-> "none"]

\* The result with service_name and tool_name of call c filled in.
Named(c, result) ==
    [result EXCEPT !.service_name = calls[c].service,
                   !.tool_name = calls[c].tool]

NoResult == MCPCallResult(FALSE, "none", "none", "none")

\* ServiceEndpoint(...) as _load_config and _create_default_services build it.
ServiceEndpoint == [status |-> "unknown", error_count |-> 0]

\* The frame of a call_service call: where it is, its arguments, the number
\* of times the backoff decorator has invoked the function, the status polls
\* sent, the last answer of the service and the returned result.
CallFrame(pc, service, tool, attempts, result) ==
    [pc |-> pc, service |-> service, tool |-> tool, attempts |-> attempts,
     polls |-> 0, response |-> "none", result |-> result]

InitClient ==
    /\ services = [n \in ServiceNames |-> ServiceEndpoint]
    /\ calls = [c \in CallIds |-> CallFrame("idle", "none", "none", 0, NoResult)]
    /\ probes = [n \in ServiceNames |-> "idle"]
    /\ health_checker = [pc |-> "created", pos |-> 0]

\* The end of the `async with` block of call_service: the service is marked
\* Healthy with error_count 0 whatever the result, service_name and
\* tool_name are set on the result, and the result is returned.
ReturnResult(c, outcome, result) ==
    /\ services' = [services EXCEPT
          ![calls[c].service] = [status |-> "healthy", error_count |-> 0]]
    /\ calls' = [calls EXCEPT ![c].pc = "done", ![c].polls = 0,
                              ![c].response = outcome,
                              ![c].result = Named(c, result)]

\* CallService without the Unhealthy check.
CallServiceNoCircuit(c, service_name, tool_name) ==
    /\ calls[c].pc \in {"idle", "done"}
    /\ IF service_name \notin DOMAIN services
       THEN calls' = [calls EXCEPT ![c] =
                CallFrame("done", service_name, tool_name, 1,
                          MCPCallResult(FALSE, "none", "not_found", "none"))]
       ELSE calls' = [calls EXCEPT ![c] =
                CallFrame("post", service_name, tool_name, 1, NoResult)]
    /\ UNCHANGED <<services, probes, health_checker, engineVars, coreVars, managerVars>>

\* call_service(service_name, tool_name, ...) up to its first await, invoked
\* by its backoff decorator for the first time: an unknown or an Unhealthy
\* service is refused, else the POST to /execute is sent.
CallService(c, service_name, tool_name) ==
    /\ calls[c].pc \in {"idle", "done"}
    /\ IF service_name \notin DOMAIN services
       THEN calls' = [calls EXCEPT ![c] =
                CallFrame("done", service_name, tool_name, 1,
                          MCPCallResult(FALSE, "none", "not_found", "none"))]
       ELSE IF services[service_name].status = "unhealthy"
       THEN calls' = [calls EXCEPT ![c] =
                CallFrame("done", service_name, tool_name, 1,
                          MCPCallResult(FALSE, "none", "unhealthy", "none"))]
       ELSE calls' = [calls EXCEPT ![c] =
                CallFrame("post", service_name, tool_name, 1, NoResult)]
    /\ UNCHANGED <<services, probes, health_checker, engineVars, coreVars, managerVars>>

\* What the POST to /execute can end in: HTTP 200 with a status other than
\* 'running' (completed, or failed), 'running' with or without an execution
\* id, another HTTP status, asyncio.TimeoutError, any other exception (a
\* refused connection, a body that is not JSON).
PostOutcomes ==
    {"completed", "failed", "running", "running_no_id", "http_error",
     "timeout", "exception"}

\* The data of an immediate result: result_data, the whole body of the
\* answer to /execute, which holds the remote status.
ResultData(outcome) ==
    IF outcome = "completed" THEN "response_completed" ELSE "response_failed"

\* The except blocks of call_service: error_count is incremented, and by
\* `except Exception` the service made Unhealthy at max_errors; a failure
\* result with the names of the call is returned, so that the backoff
\* decorator sees no exception and invokes nothing again.
Caught(c, outcome, error) ==
    LET n == calls[c].service IN
    /\ services[n].error_count < MaxErrorCount
    /\ services' = [services EXCEPT
          ![n].error_count = @ + 1,
          ![n].status = IF /\ outcome = "exception"
                           /\ services[n].error_count + 1 >= max_errors
                        THEN "unhealthy" ELSE @]
    /\ calls' = [calls EXCEPT ![c].pc = "done", ![c].polls = 0,
                              ![c].response = outcome,
                              ![c].result = Named(c,
                                  MCPCallResult(FALSE, "none", error, "none"))]

\* PostResponse without `except Exception`: the exception leaves call_service.
PostResponseUncaught(c, outcome) ==
    /\ calls[c].pc = "post"
    /\ CASE outcome \in {"completed", "failed"} ->
              ReturnResult(c, outcome,
                  MCPCallResult(TRUE, ResultData(outcome), "none", "x"))
         [] outcome = "running" ->
              /\ calls' = [calls EXCEPT ![c].pc = "poll", ![c].polls = @ + 1,
                                        ![c].response = outcome]
              /\ UNCHANGED services
         [] outcome = "running_no_id" ->
              ReturnResult(c, outcome,
                  MCPCallResult(FALSE, "none", "no_execution_id", "none"))
         [] outcome = "http_error" ->
              ReturnResult(c, outcome,
                  MCPCallResult(FALSE, "none", "http_error", "none"))
         [] outcome = "timeout" -> Caught(c, outcome, "timed_out")
         [] outcome = "exception" ->
              /\ calls' = [calls EXCEPT ![c].pc = "raised",
                                        ![c].response = outcome]
              /\ UNCHANGED services
    /\ UNCHANGED <<probes, health_checker, engineVars, coreVars, managerVars>>

\* The POST is answered, or fails.
PostResponse(c, outcome) ==
    /\ calls[c].pc = "post"
    /\ CASE outcome \in {"completed", "failed"} ->
              ReturnResult(c, outcome,
                  MCPCallResult(TRUE, ResultData(outcome), "none", "x"))
         [] outcome = "running" ->
              \* _wait_for_completion: the first GET /status/{execution_id}
              /\ calls' = [calls EXCEPT ![c].pc = "poll", ![c].polls = @ + 1,
                                        ![c].response = outcome]
              /\ UNCHANGED services
         [] outcome = "running_no_id" ->
              ReturnResult(c, outcome,
                  MCPCallResult(FALSE, "none", "no_execution_id", "none"))
         [] outcome = "http_error" ->
              ReturnResult(c, outcome,
                  MCPCallResult(FALSE, "none", "http_error", "none"))
         [] outcome = "timeout" -> Caught(c, outcome, "timed_out")
         [] outcome = "exception" -> Caught(c, outcome, "request_failed")
    /\ UNCHANGED <<probes, health_checker, engineVars, coreVars, managerVars>>

\* What a GET /status/{execution_id} can end in: HTTP 200 with a terminal
\* status, HTTP 200 with another status, another HTTP status, an exception.
PollOutcomes ==
    {"completed", "failed", "cancelled", "pending", "http_error", "exception"}

\* PollResponse returning the whole status body as data where the code
\* returns status_data.get('result').
PollResponseWholeBody(c, outcome) ==
    /\ calls[c].pc = "poll"
    /\ CASE outcome = "completed" ->
              ReturnResult(c, outcome,
                  MCPCallResult(TRUE, ResultData(outcome), "none", "x"))
         [] outcome = "failed" ->
              ReturnResult(c, outcome,
                  MCPCallResult(FALSE, "none", "execution_failed", "x"))
         [] outcome = "cancelled" ->
              ReturnResult(c, outcome,
                  MCPCallResult(FALSE, "none", "execution_cancelled", "x"))
         [] outcome = "pending" ->
              /\ calls' = [calls EXCEPT ![c].pc = "poll_sleep",
                                        ![c].response = outcome]
              /\ UNCHANGED services
         [] outcome = "http_error" ->
              ReturnResult(c, outcome,
                  MCPCallResult(FALSE, "none", "status_http_error", "none"))
         [] outcome = "exception" ->
              ReturnResult(c, outcome,
                  MCPCallResult(FALSE, "none", "status_check_failed", "none"))
    /\ UNCHANGED <<probes, health_checker, engineVars, coreVars, managerVars>>

\* _wait_for_completion: a status poll is answered, or fails.
PollResponse(c, outcome) ==
    /\ calls[c].pc = "poll"
    /\ CASE outcome = "completed" ->
              ReturnResult(c, outcome, MCPCallResult(TRUE, "result", "none", "x"))
         [] outcome = "failed" ->
              ReturnResult(c, outcome,
                  MCPCallResult(FALSE, "none", "execution_failed", "x"))
         [] outcome = "cancelled" ->
              ReturnResult(c, outcome,
                  MCPCallResult(FALSE, "none", "execution_cancelled", "x"))
         [] outcome = "pending" ->
              /\ calls' = [calls EXCEPT ![c].pc = "poll_sleep",
                                        ![c].response = outcome]
              /\ UNCHANGED services
         [] outcome = "http_error" ->
              ReturnResult(c, outcome,
                  MCPCallResult(FALSE, "none", "status_http_error", "none"))
         [] outcome = "exception" ->
              ReturnResult(c, outcome,
                  MCPCallResult(FALSE, "none", "status_check_failed", "none"))
    /\ UNCHANGED <<probes, health_checker, engineVars, coreVars, managerVars>>

\* PollWake without the timeout test at the head of the loop.
PollWakeNoTimeout(c, elapsed) ==
    /\ calls[c].pc = "poll_sleep"
    /\ calls' = [calls EXCEPT ![c].pc = "poll",
                              ![c].polls = IF @ < MaxPolls THEN @ + 1 ELSE @]
    /\ UNCHANGED <<services, probes, health_checker, engineVars, coreVars, managerVars>>

\* _wait_for_completion: asyncio.sleep(poll_interval) is over; the timeout
\* has elapsed (the call returns a timeout failure) or the next poll is sent.
\* Every sleep takes poll_interval, so after MaxPolls polls it has elapsed.
PollWake(c, elapsed) ==
    /\ calls[c].pc = "poll_sleep"
    /\ IF elapsed
       THEN ReturnResult(c, calls[c].response,
                MCPCallResult(FALSE, "none", "execution_timed_out", "x"))
       ELSE /\ calls[c].polls < MaxPolls
            /\ calls' = [calls EXCEPT ![c].pc = "poll", ![c].polls = @ + 1]
            /\ UNCHANGED services
    /\ UNCHANGED <<probes, health_checker, engineVars, coreVars, managerVars>>

\* health_check(service_name) up to its await: for a name that is not
\* registered it returns False at once, else the GET to health_check_url is
\* sent.
HealthCheck(n) ==
    IF n \notin DOMAIN services
    THEN UNCHANGED vars
    ELSE /\ probes[n] = "idle"
         /\ probes' = [probes EXCEPT ![n] = "get"]
         /\ UNCHANGED <<services, calls, health_checker, engineVars, coreVars, managerVars>>

\* What the GET to the health address can end in.
HealthOutcomes == {"200", "non200", "exception"}

\* HealthResponse without `except Exception`: the exception leaves
\* health_check.
HealthResponseUncaught(n, outcome) ==
    /\ probes[n] = "get"
    /\ IF outcome = "exception"
       THEN /\ probes' = [probes EXCEPT ![n] = "raised"]
            /\ UNCHANGED services
       ELSE /\ services' = [services EXCEPT
                  ![n].status = IF outcome = "200" THEN "healthy" ELSE "unhealthy"]
            /\ probes' = [probes EXCEPT ![n] = "idle"]
    /\ UNCHANGED <<calls, health_checker, engineVars, coreVars, managerVars>>

\* HealthResponse writing the status of every service.
HealthResponseAll(n, outcome) ==
    /\ probes[n] = "get"
    /\ services' = [m \in DOMAIN services |->
          [services[m] EXCEPT
              !.status = IF outcome = "200" THEN "healthy" ELSE "unhealthy"]]
    /\ probes' = [probes EXCEPT ![n] = "idle"]
    /\ UNCHANGED <<calls, health_checker, engineVars, coreVars, managerVars>>

\* The health GET is answered, or fails: Healthy on HTTP 200 (health_check
\* returns True), else Unhealthy (it returns False).
HealthResponse(n, outcome) ==
    /\ probes[n] = "get"
    /\ services' = [services EXCEPT
          ![n].status = IF outcome = "200" THEN "healthy" ELSE "unhealthy"]
    /\ probes' = [probes EXCEPT ![n] = "idle"]
    /\ UNCHANGED <<calls, health_checker, engineVars, coreVars, managerVars>>

\* The services in the order of self.services.keys().
ServiceOrder == <<"climada", "lisflood">>

\* health_checker, the task _start_health_checker creates, runs for the
\* first time or its asyncio.sleep(health_check_interval) is over: the for
\* loop starts and health_check of the first service sends its GET.
CheckerWake ==
    /\ health_checker.pc \in {"created", "sleep"}
    /\ health_checker' = [pc |-> "get", pos |-> 1]
    /\ UNCHANGED <<services, calls, probes, engineVars, coreVars, managerVars>>

\* CheckerResponse with a probe failure that ends the task.
CheckerResponseAborts(outcome) ==
    /\ health_checker.pc = "get"
    /\ services' = [services EXCEPT
          ![ServiceOrder[health_checker.pos]].status =
              IF outcome = "200" THEN "healthy" ELSE "unhealthy"]
    /\ health_checker' =
          IF outcome = "exception"
          THEN [pc |-> "stopped", pos |-> 0]
          ELSE IF health_checker.pos < Len(ServiceOrder)
          THEN [pc |-> "get", pos |-> health_checker.pos + 1]
          ELSE [pc |-> "sleep", pos |-> 0]
    /\ UNCHANGED <<calls, probes, engineVars, coreVars, managerVars>>

\* The GET of the health_check awaited by health_checker is answered, or
\* fails: health_check sets the status and returns, and the for loop goes on
\* to the health_check of the next service, or after the last one to
\* asyncio.sleep(health_check_interval).
CheckerResponse(outcome) ==
    /\ health_checker.pc = "get"
    /\ services' = [services EXCEPT
          ![ServiceOrder[health_checker.pos]].status =
              IF outcome = "200" THEN "healthy" ELSE "unhealthy"]
    /\ health_checker' =
          IF health_checker.pos < Len(ServiceOrder)
          THEN [pc |-> "get", pos |-> health_checker.pos + 1]
          ELSE [pc |-> "sleep", pos |-> 0]
    /\ UNCHANGED <<calls, probes, engineVars, coreVars, managerVars>>

\* ---------------------------------------------- MCPClient (core) operations

\* The tools execute_tool is called with.
ToolNames ==
    {"climada_risk_quantification", "lisflood_flood_risk_assessment",
     "nfdrs4_fire_risk_assessment"}

\* MCPResponse(success, data, error, execution_id).
MCPResponse(success, data, error, execution_id) ==
    [success |-> success, data |-> data, error |-> error,
     execution_id |-> execution_id]

NoResponse == MCPResponse(FALSE, "none", "none", "none")

\* The frame of a call of execute_tool or of wait_for_completion.
ToolFrame(pc, entry, tool_name, wait_for_completion, timeout, polls, response) ==
    [pc |-> pc, entry |-> entry, tool_name |-> tool_name,
     wait_for_completion |-> wait_for_completion, timeout |-> timeout,
     polls |-> polls, response |-> response]

InitCore ==
    tool_call = ToolFrame("idle", "none", "none", FALSE, FALSE, 0, NoResponse)

\* What _make_request returns: HTTP 200 gives success with the body as data
\* and its execution_id, any other status gives the message of the body,
\* asyncio.TimeoutError and any other exception an error text.
MakeRequest(outcome, data, execution_id) ==
    CASE outcome = "200" -> MCPResponse(TRUE, data, "none", execution_id)
      [] outcome = "http_error" -> MCPResponse(FALSE, "none", "http_error", "none")
      [] outcome = "timeout" -> MCPResponse(FALSE, "none", "request_timeout", "none")
      [] outcome = "exception" -> MCPResponse(FALSE, "none", "request_failed", "none")

\* execute_tool(tool_name, parameters, wait_for_completion=...) up to its
\* await: the POST to /execute is sent. quick_execute calls it with
\* wait_for_completion=True.
ExecuteTool(tool_name, wait_for_completion) ==
    /\ tool_call.pc \in {"idle", "done"}
    /\ tool_call' = ToolFrame("post", "execute_tool", tool_name,
                              wait_for_completion, FALSE, 0, NoResponse)
    /\ UNCHANGED <<engineVars, clientVars, managerVars>>

\* wait_for_completion(execution_id, poll_interval, timeout) called by a
\* user of the client, with a timeout or without one, up to its first
\* await: the first status request is sent.
WaitForCompletion(timeout) ==
    /\ tool_call.pc \in {"idle", "done"}
    /\ tool_call' = ToolFrame("poll", "wait_for_completion", "none", FALSE,
                              timeout, 1, NoResponse)
    /\ UNCHANGED <<engineVars, clientVars, managerVars>>

\* What the POST to /execute can end in: HTTP 200 with or without an
\* execution_id in the body, another status, a timeout, an exception.
ExecuteOutcomes == {"accepted", "no_id", "http_error", "timeout", "exception"}

\* execute_tool: _make_request has returned. A failure is returned as it
\* is; with wait_for_completion and an execution_id wait_for_completion is
\* called with (execution_id, poll_interval), that is, without a timeout, and
\* sends its first status request; else the response is returned.
ExecuteResponse(outcome) ==
    /\ tool_call.pc = "post"
    /\ LET response ==
              CASE outcome = "accepted" -> MakeRequest("200", "accepted", "x")
                [] outcome = "no_id" -> MakeRequest("200", "accepted", "none")
                [] OTHER -> MakeRequest(outcome, "none", "none")
       IN  IF /\ response.success
              /\ tool_call.wait_for_completion
              /\ response.execution_id # "none"
           THEN tool_call' = [tool_call EXCEPT !.pc = "poll", !.polls = 1,
                                               !.timeout = FALSE]
           ELSE tool_call' = [tool_call EXCEPT !.pc = "done",
                                               !.response = response]
    /\ UNCHANGED <<engineVars, clientVars, managerVars>>

\* What GET /status/{execution_id} can end in: HTTP 200 with a status, HTTP
\* 200 with an empty body, another HTTP status, a timeout, an exception.
StatusOutcomes ==
    {"completed", "failed", "cancelled", "running", "empty",
     "http_error", "timeout", "exception"}

\* wait_for_completion: get_execution_status has returned.
StatusResponse(outcome) ==
    /\ tool_call.pc = "poll"
    /\ CASE outcome \in {"http_error", "timeout", "exception"} ->
              tool_call' = [tool_call EXCEPT !.pc = "done",
                               !.response = MakeRequest(outcome, "none", "none")]
         [] outcome = "empty" ->
              tool_call' = [tool_call EXCEPT !.pc = "done",
                               !.response = MCPResponse(FALSE, "none",
                                               "invalid_status_response", "none")]
         [] outcome = "completed" ->
              tool_call' = [tool_call EXCEPT !.pc = "done",
                               !.response = MCPResponse(TRUE, "result", "none", "x")]
         [] outcome = "failed" ->
              tool_call' = [tool_call EXCEPT !.pc = "done",
                               !.response = MCPResponse(FALSE, "none",
                                               "execution_failed", "x")]
         [] outcome = "cancelled" ->
              tool_call' = [tool_call EXCEPT !.pc = "done",
                               !.response = MCPResponse(FALSE, "none",
                                               "execution_cancelled", "x")]
         [] outcome = "running" ->
              tool_call' = [tool_call EXCEPT !.pc = "sleep"]
    /\ UNCHANGED <<engineVars, clientVars, managerVars>>

\* wait_for_completion: asyncio.sleep(poll_interval) is over, back to the
\* head of the loop. With a timeout that has elapsed the call returns the
\* timeout failure; else the next status request is sent. Every sleep takes
\* poll_interval, so a timeout has elapsed after MaxPolls sleeps at the
\* latest; polls stops counting there.
StatusWake(elapsed) ==
    /\ tool_call.pc = "sleep"
    /\ tool_call.polls = MaxPolls => elapsed
    /\ IF tool_call.timeout /\ elapsed
       THEN tool_call' = [tool_call EXCEPT !.pc = "done",
                             !.response = MCPResponse(FALSE, "none",
                                             "execution_timeout", "none")]
       ELSE tool_call' = [tool_call EXCEPT !.pc = "poll",
                             !.polls = IF @ < MaxPolls THEN @ + 1 ELSE @]
    /\ UNCHANGED <<engineVars, clientVars, managerVars>>

\* ------------------------------------------------ service manager operations

\* The services of _initialize_services the model keeps.
ModelServiceNames == {"nfdrs4", "lisflood"}

\* ModelService(...) as _initialize_services builds it: Stopped, no process.
ModelService == [status |-> "stopped", process |-> "none", orphans |-> 0]

InitManager == model_services = [n \in ModelServiceNames |-> ModelService]

\* What subprocess.Popen and the poll() two seconds later can give: the
\* process runs, it has exited, Popen raised.
SpawnOutcomes == {"runs", "exited", "raised"}

\* What terminate() and wait(timeout=10) can give: the process ends in time,
\* or wait raises TimeoutExpired and the process is still running.
StopOutcomes == {"terminated", "wait_timeout"}

\* The processes of a service that are running.
Live(service) ==
    service.orphans + (IF service.process = "live" THEN 1 ELSE 0)

\* The ModelService after _start_service, which refuses only if the status
\* is Running: Popen assigns the new process to service.process, and a live
\* process the field referred to runs on without a reference.
StartServiceEffect(service, spawn) ==
    IF service.status = "running"
    THEN service
    ELSE IF spawn = "raised"
    THEN [service EXCEPT !.status = "error"]
    ELSE [service EXCEPT
              !.status = IF spawn = "runs" THEN "running" ELSE "error",
              !.process = IF spawn = "runs" THEN "live" ELSE "exited",
              !.orphans = IF service.process = "live" THEN @ + 1 ELSE @]

\* The ModelService after _stop_service: nothing for a Stopped service; a
\* process that is running is terminated and waited for, and if the wait
\* raises the status is Error and the process field is kept.
StopServiceEffect(service, outcome) ==
    IF service.status = "stopped"
    THEN service
    ELSE IF service.process = "live"
    THEN IF outcome = "terminated"
         THEN [service EXCEPT !.status = "stopped", !.process = "none"]
         ELSE [service EXCEPT !.status = "error"]
    ELSE [service EXCEPT !.status = "stopped"]

\* _start_service(service_name); the start action of the API.
StartService(n, spawn) ==
    /\ n \in DOMAIN model_services
    /\ LET service == StartServiceEffect(model_services[n], spawn)
       IN  /\ service.orphans <= MaxOrphans
           /\ model_services' = [model_services EXCEPT ![n] = service]
    /\ UNCHANGED <<engineVars, clientVars, coreVars>>

\* _stop_service(service_name); the stop action of the API.
StopService(n, outcome) ==
    /\ n \in DOMAIN model_services
    /\ model_services' = [model_services EXCEPT
          ![n] = StopServiceEffect(model_services[n], outcome)]
    /\ UNCHANGED <<engineVars, clientVars, coreVars>>

\* The restart action of the API: _stop_service, then _start_service; no
\* await of either suspends, so nothing runs in between.
RestartService(n, outcome, spawn) ==
    /\ n \in DOMAIN model_services
    /\ LET service ==
              StartServiceEffect(StopServiceEffect(model_services[n], outcome),
                                 spawn)
       IN  /\ service.orphans <= MaxOrphans
           /\ model_services' = [model_services EXCEPT ![n] = service]
    /\ UNCHANGED <<engineVars, clientVars, coreVars>>

\* A process the manager spawned exits by itself: the one service.process
\* refers to, or one it does not refer to any more.
ProcessExit(n, orphan) ==
    /\ n \in DOMAIN model_services
    /\ IF orphan
       THEN /\ model_services[n].orphans > 0
            /\ model_services' = [model_services EXCEPT ![n].orphans = @ - 1]
       ELSE /\ model_services[n].process = "live"
            /\ model_services' = [model_services EXCEPT ![n].process = "exited"]
    /\ UNCHANGED <<engineVars, clientVars, coreVars>>

\* ---------------------------------------------------------- specifications

\* The engine with an untouched client.
InitEngineSpec == InitEngine /\ InitClient /\ InitCore /\ InitManager

\* The client with an engine that holds one definition, a chain as the
\* predefined workflows are, and no instance.
InitClientSpec ==
    /\ InitClient
    /\ InitCore
    /\ InitManager
    /\ InitEngine
    /\ \A k \in 1..Len(StepIds) :
          workflow_definitions[WorkflowName][k].dependencies =
              IF k = 1 THEN {} ELSE {StepIds[k - 1]}

NextEngine ==
    \/ \E name \in {WorkflowName, UnknownWorkflow} : StartWorkflow(name)
    \/ \E i \in 1..MaxInstances : ExecuteWorkflow(i)
    \/ \E i \in 1..MaxInstances : HandlerReturn(i)
    \/ \E i \in 1..MaxInstances : HandlerRaise(i)
    \/ \E i \in 1..MaxInstances : Wake(i)
    \/ \E i \in 1..MaxInstances : CancelWorkflow(i) /\ UNCHANGED cancel_call

NextClient ==
    \/ \E c \in CallIds, request \in Requests :
          CallService(c, request.service_name, request.tool_name)
    \/ \E c \in CallIds, outcome \in PostOutcomes : PostResponse(c, outcome)
    \/ \E c \in CallIds, outcome \in PollOutcomes : PollResponse(c, outcome)
    \/ \E c \in CallIds, elapsed \in BOOLEAN : PollWake(c, elapsed)
    \/ \E n \in ServiceNames \cup {UnknownService} : HealthCheck(n)
    \/ \E n \in ServiceNames, outcome \in HealthOutcomes :
          HealthResponse(n, outcome)

\* The workflow engine.
EngineSpec == InitEngineSpec /\ [][NextEngine]_vars

\* The workflow engine on a running event loop: an awaited handler ends (it
\* returns or raises) and asyncio.sleep(0.1) ends.
FairEngineSpec ==
    /\ EngineSpec
    /\ \A i \in 1..MaxInstances :
          /\ WF_vars(HandlerReturn(i) \/ HandlerRaise(i))
          /\ WF_vars(Wake(i))

\* The MCP client framework and its health checker.
ClientSpec == InitClientSpec /\ [][NextClient]_vars

\* The engine and the calls of the client on the same event loop, without
\* the health checker.
NextPlatform ==
    \/ NextEngine
    \/ \E c \in CallIds, request \in Requests :
          CallService(c, request.service_name, request.tool_name)
    \/ \E c \in CallIds, outcome \in PostOutcomes : PostResponse(c, outcome)
    \/ \E c \in CallIds, outcome \in PollOutcomes : PollResponse(c, outcome)
    \/ \E c \in CallIds, elapsed \in BOOLEAN : PollWake(c, elapsed)

PlatformSpec == InitClientSpec /\ [][NextPlatform]_vars

\* The background health loop beside health_check calls made directly.
NextHealth ==
    \/ CheckerWake
    \/ \E outcome \in HealthOutcomes : CheckerResponse(outcome)
    \/ \E n \in ServiceNames \cup {UnknownService} : HealthCheck(n)
    \/ \E n \in ServiceNames, outcome \in HealthOutcomes :
          HealthResponse(n, outcome)

HealthSpec == InitClientSpec /\ [][NextHealth]_vars

\* The health loop on a running event loop: a GET ends (it is answered, or
\* its 10 s timeout makes it raise) and asyncio.sleep ends.
FairHealthSpec ==
    /\ HealthSpec
    /\ WF_vars(CheckerWake)
    /\ WF_vars(\E outcome \in HealthOutcomes : CheckerResponse(outcome))

\* The engine with the callers of cancel_workflow keeping what it returns.
NextCancel ==
    \/ \E name \in {WorkflowName, UnknownWorkflow} : StartWorkflow(name)
    \/ \E i \in 1..MaxInstances : ExecuteWorkflow(i)
    \/ \E i \in 1..MaxInstances : HandlerReturn(i)
    \/ \E i \in 1..MaxInstances : HandlerRaise(i)
    \/ \E i \in 1..MaxInstances : Wake(i)
    \/ \E i \in 1..MaxInstances : CancelWorkflowCall(i)

CancelSpec == InitEngineSpec /\ [][NextCancel]_vars

\* The calls on one MCPClient.
NextTool ==
    \/ \E tool_name \in ToolNames, wait_for_completion \in BOOLEAN :
          ExecuteTool(tool_name, wait_for_completion)
    \/ \E timeout \in BOOLEAN : WaitForCompletion(timeout)
    \/ \E outcome \in ExecuteOutcomes : ExecuteResponse(outcome)
    \/ \E outcome \in StatusOutcomes : StatusResponse(outcome)
    \/ \E elapsed \in BOOLEAN : StatusWake(elapsed)

ToolSpec == InitClientSpec /\ [][NextTool]_vars

\* MCPClient on a running event loop: every request ends (the session has
\* a total timeout of 300 s) and every asyncio.sleep ends.
FairToolSpec ==
    /\ ToolSpec
    /\ WF_vars(\E outcome \in ExecuteOutcomes : ExecuteResponse(outcome))
    /\ WF_vars(\E outcome \in StatusOutcomes : StatusResponse(outcome))
    /\ WF_vars(\E elapsed \in BOOLEAN : StatusWake(elapsed))

\* The service control requests of the API and the processes they spawn.
NextManager ==
    \/ \E n \in ModelServiceNames, spawn \in SpawnOutcomes : StartService(n, spawn)
    \/ \E n \in ModelServiceNames, outcome \in StopOutcomes : StopService(n, outcome)
    \/ \E n \in ModelServiceNames, outcome \in StopOutcomes, spawn \in SpawnOutcomes :
          RestartService(n, outcome, spawn)
    \/ \E n \in ModelServiceNames, orphan \in BOOLEAN : ProcessExit(n, orphan)

ManagerSpec == InitClientSpec /\ [][NextManager]_vars

\* ------------------------------------------------------ engine properties

Instances == DOMAIN workflow_instances
StepsOf(i) == workflow_instances[i].steps
Ended(i) == exec[i].pc \in {"returned", "raised"}

\* The dependency graph has a cycle: some non-empty set of steps in which
\* every step depends on a step of the set.
HasCycle(steps) ==
    \E C \in SUBSET {steps[k].id : k \in DOMAIN steps} :
        /\ C # {}
        /\ \A k \in DOMAIN steps :
              steps[k].id \in C => steps[k].dependencies \cap C # {}

\* C1: a step is Running only while every id in its dependencies is the id
\* of a step of the same instance whose status is Completed.
C1_RunningOnlyAfterDependencies ==
    \A i \in Instances : \A k \in DOMAIN StepsOf(i) :
        StepsOf(i)[k].status = "running" =>
            \A dep \in StepsOf(i)[k].dependencies :
                \E j \in DOMAIN StepsOf(i) :
                    /\ StepsOf(i)[j].id = dep
                    /\ StepsOf(i)[j].status = "completed"

\* A step with dependencies is running.
C1_Witness ==
    \E i \in Instances : \E k \in DOMAIN StepsOf(i) :
        /\ StepsOf(i)[k].status = "running"
        /\ Cardinality(StepsOf(i)[k].dependencies) = 2

\* C2: the step in which a step of an instance ends Failed also makes the
\* instance Failed and ends the execution, leaving every Pending step
\* Pending; and as long as that execution is the last one of the instance
\* its steps and its Failed status do not change.
C2_FailFast ==
    [][\A i \in Instances :
          /\ (\E k \in DOMAIN StepsOf(i) :
                  /\ StepsOf(i)[k].status # "failed"
                  /\ workflow_instances'[i].steps[k].status = "failed")
             => /\ workflow_instances'[i].status = "failed"
                /\ exec'[i].pc = "raised"
                /\ \A j \in DOMAIN StepsOf(i) :
                      StepsOf(i)[j].status = "pending"
                          => workflow_instances'[i].steps[j].status = "pending"
          /\ (exec[i].pc = "raised" /\ exec'[i].pc = "raised")
             => /\ workflow_instances'[i].steps = StepsOf(i)
                /\ workflow_instances'[i].status = "failed"
      ]_vars

\* An execution has stopped at a Failed step with a step still Pending.
C2_Witness ==
    \E i \in Instances :
        /\ exec[i].pc = "raised"
        /\ workflow_instances[i].status = "failed"
        /\ \E k, j \in DOMAIN StepsOf(i) :
              /\ StepsOf(i)[k].status = "failed"
              /\ StepsOf(i)[j].status = "pending"

\* C3: a Completed instance has every step Completed.
C3_CompletedInstanceAllStepsCompleted ==
    \A i \in Instances :
        workflow_instances[i].status = "completed" =>
            \A k \in DOMAIN StepsOf(i) : StepsOf(i)[k].status = "completed"

\* An instance is Completed.
C3_Witness ==
    \E i \in Instances :
        /\ workflow_instances[i].status = "completed"
        /\ exec[i].passes > 1

\* C4: no step that is Completed, Failed or Cancelled is Pending or Running
\* in the next state.
C4_TerminalStepsStayTerminal ==
    [][\A i \in Instances : \A k \in DOMAIN StepsOf(i) :
          StepsOf(i)[k].status \in {"completed", "failed", "cancelled"}
              => workflow_instances'[i].steps[k].status \notin {"pending", "running"}
      ]_vars

\* C5: an execution never goes to sleep for another scan after a pass that
\* dispatched no step while a step is still Pending.
C5_NoProgressPassFails ==
    \A i \in Instances :
        ~ /\ exec[i].pc = "sleep"
          /\ exec[i].dispatched = 0
          /\ \E k \in DOMAIN StepsOf(i) : StepsOf(i)[k].status = "pending"

\* The instance is acyclic and its dependencies are ids of its own steps.
WellFormed(i) ==
    /\ ~HasCycle(StepsOf(i))
    /\ \A k \in DOMAIN StepsOf(i) :
          StepsOf(i)[k].dependencies \subseteq
              {StepsOf(i)[j].id : j \in DOMAIN StepsOf(i)}

\* For a well-formed instance an execution makes at most Len(steps) scan
\* passes, every pass it sleeps after has dispatched a step, and an ended
\* execution leaves the instance Completed or Failed.
BoundedPasses ==
    \A i \in Instances :
        WellFormed(i)
        => /\ exec[i].passes <= Len(StepsOf(i))
           /\ exec[i].pc = "sleep" => exec[i].dispatched > 0
           /\ Ended(i) => workflow_instances[i].status \in {"completed", "failed"}

\* C6: for an instance whose dependency graph is acyclic and refers to its
\* own steps, every execute_workflow call ends, after at most Len(steps)
\* scan passes, with the instance Completed or Failed.
C6_AcyclicTerminates ==
    /\ []BoundedPasses
    /\ \A i \in 1..MaxInstances :
          []<>(~(i \in Instances /\ WellFormed(i) /\ InProgress(i)))

\* An acyclic instance was completed in as many passes as it has steps.
C6_Witness ==
    \E i \in Instances :
        /\ ~HasCycle(StepsOf(i))
        /\ exec[i].pc = "returned"
        /\ exec[i].passes = Len(StepsOf(i))
        /\ workflow_instances[i].status = "completed"

\* C10: while an instance is Cancelled (cancel_workflow returned True) and
\* its execute_workflow is in progress, no step of it goes from Pending to
\* Running.
C10_NoDispatchAfterCancel ==
    [][\A i \in Instances : \A k \in DOMAIN StepsOf(i) :
          (workflow_instances[i].status = "cancelled" /\ InProgress(i))
              => ~ /\ StepsOf(i)[k].status = "pending"
                   /\ workflow_instances'[i].steps[k].status = "running"
      ]_vars

\* C12: the step in which a handler raises records the failure (the step is
\* Failed with an error, the instance is Failed) and execute_workflow
\* returns: it does not end by raising.
C12_ExecuteWorkflowNeverRaises ==
    [][\A i \in Instances :
          (/\ exec[i].pc = "handler"
           /\ workflow_instances'[i].steps[exec[i].pos].status = "failed")
          => /\ workflow_instances'[i].steps[exec[i].pos].error # "none"
             /\ workflow_instances'[i].status = "failed"
             /\ exec'[i].pc = "returned"
      ]_vars

\* C20: a start_workflow call with a name that is not registered ends by
\* raising ValueError and leaves the instances as they are.
C20_UnknownNameRejected ==
    [][(/\ start_call' # start_call
        /\ start_call'.workflow_name \notin DOMAIN workflow_definitions)
       => /\ start_call'.raised
          /\ workflow_instances' = workflow_instances
          /\ exec' = exec
      ]_vars

\* start_workflow has raised for an unregistered name while an instance
\* started before is there.
C20_Witness ==
    /\ start_call.workflow_name = UnknownWorkflow
    /\ start_call.raised
    /\ Len(workflow_instances) = 1

C22_FailedExposesError ==
    \A i \in Instances :
        /\ \A k \in DOMAIN StepsOf(i) :
              StepsOf(i)[k].status = "failed" => StepsOf(i)[k].error # "none"
        /\ workflow_instances[i].status = "failed"
              => \E k \in DOMAIN StepsOf(i) :
                    /\ StepsOf(i)[k].status = "failed"
                    /\ StepsOf(i)[k].error # "none"

\* C23: after cancel_workflow has cancelled an instance whose execution is
\* in progress, a call that is in its poll loop sends no further status
\* query (whichever call is taken to be the remote call of that instance).
C23_CancelReachesPollLoop ==
    [][\A i \in Instances : \A c \in CallIds :
          (/\ workflow_instances[i].status = "cancelled"
           /\ InProgress(i)
           /\ calls[c].pc = "poll_sleep")
          => calls'[c].pc # "poll"
      ]_vars

\* C24: the step in which the handler of a fan-out step returns leaves the
\* step Completed with one sub-result per target service, in order: a
\* failure for a target that is Unhealthy in the registry, a success for
\* every other target.
C24_FanOutToleratesFailure ==
    [][\A i \in Instances :
          (/\ exec[i].pc = "handler"
           /\ StepsOf(i)[exec[i].pos].step_type = "parallel_mcp_calls"
           /\ workflow_instances'[i].steps[exec[i].pos].status = "completed")
          => LET results == workflow_instances'[i].steps[exec[i].pos].results
             IN  /\ Len(results) = Len(FanOutServices)
                 /\ \A n \in 1..Len(FanOutServices) :
                       /\ results[n].service = FanOutServices[n]
                       /\ results[n].outcome =
                             IF /\ FanOutServices[n] \in DOMAIN services
                                /\ services[FanOutServices[n]].status = "unhealthy"
                             THEN "failure" ELSE "result"
      ]_vars

\* ------------------------------------------------------ client properties

\* call_service is entered by call c in this step.
Entered(c) == calls[c].pc \in {"idle", "done"} /\ calls'[c] # calls[c]

\* C7: a call_service on a name that is not registered or on an Unhealthy
\* service returns at once (its POST is never sent) with success = False and
\* an error, and leaves every registry entry as it is.
C7_RefusedWithoutRequest ==
    [][\A c \in CallIds :
          (/\ calls[c].pc \in {"idle", "done"}
           /\ calls'[c].pc \in {"post", "done"}
           /\ calls'[c] # calls[c]
           /\ \/ calls'[c].service \notin DOMAIN services
              \/ services[calls'[c].service].status = "unhealthy")
          => /\ calls'[c].pc = "done"
             /\ calls'[c].result.success = FALSE
             /\ calls'[c].result.error \in {"not_found", "unhealthy"}
             /\ services' = services
      ]_vars

\* A call to a registered, Unhealthy service has been refused.
C7_Witness ==
    \E c \in CallIds :
        /\ calls[c].pc = "done"
        /\ calls[c].service \in DOMAIN services
        /\ services[calls[c].service].status = "unhealthy"
        /\ calls[c].result.error = "unhealthy"

\* C8: the step that takes a service's error_count to max_errors leaves the
\* service Unhealthy, and a call_service entered on a service whose
\* error_count is at least max_errors and that no health_check has made
\* Healthy since is refused.
C8_ThresholdOpensCircuit ==
    [][\A n \in ServiceNames :
          /\ (services[n].error_count < max_errors
                /\ services'[n].error_count >= max_errors)
             => services'[n].status = "unhealthy"
          /\ \A c \in CallIds :
                (/\ Entered(c)
                 /\ calls'[c].service = n
                 /\ services[n].error_count >= max_errors
                 /\ services[n].status # "healthy")
                => calls'[c].result.error = "unhealthy"
      ]_vars

\* C9: a service leaves Unhealthy only in the step in which a health_check
\* of it gets HTTP 200.
C9_UnhealthyUntilProbeSucceeds ==
    [][\A n \in ServiceNames :
          (services[n].status = "unhealthy" /\ services'[n].status # "unhealthy")
          => /\ probes[n] = "get"
             /\ probes'[n] = "idle"
             /\ services'[n].status = "healthy"
      ]_vars

\* The answers and failures of a request that are no answer of a tool: an
\* HTTP status other than 200, a timeout, any other exception.
NetworkFailures == {"http_error", "timeout", "exception"}

\* C11: call_service never raises: a call is idle, waiting for its POST, its
\* status poll or its sleep, or has returned an MCPCallResult; a returned
\* failure has success = False and an error message, a returned success has
\* none, and a call ended by an HTTP error, a timeout or an exception (of the
\* POST or of a status poll) has returned a failure.
C11_NeverRaises ==
    \A c \in CallIds :
        /\ calls[c].pc \in {"idle", "post", "poll", "poll_sleep", "done"}
        /\ calls[c].pc = "done" =>
              /\ calls[c].result.success = (calls[c].result.error = "none")
              /\ calls[c].response \in NetworkFailures
                    => calls[c].result.success = FALSE

\* A call has returned the failure of a status poll that raised.
C11_Witness ==
    \E c \in CallIds :
        /\ calls[c].pc = "done"
        /\ calls[c].response = "exception"
        /\ calls[c].result.success = FALSE
        /\ calls[c].result.error = "status_check_failed"

\* C13: a call whose POST fails at transport level (a timeout, a connection
\* error) returns that failure only when the POST was its third attempt;
\* after an earlier attempt the request is sent again.
C13_TransportFailureRetried ==
    [][\A c \in CallIds :
          (/\ calls[c].pc = "post"
           /\ calls'[c].pc = "done"
           /\ calls'[c].response \in {"timeout", "exception"})
          => calls[c].attempts = max_tries
      ]_vars

\* C14: when a status poll of a call (the first one or a later one) is
\* answered 'completed' with result r, the call returns success = True,
\* data r, no error, the execution id /execute gave, and the service and
\* tool names it was called with.
C14_PolledCompletionSucceeds ==
    [][\A c \in CallIds :
          (calls[c].pc = "poll" /\ calls'[c].response = "completed")
          => /\ calls'[c].pc = "done"
             /\ calls'[c].result =
                   [success |-> TRUE, data |-> "result", error |-> "none",
                    execution_id |-> "x",
                    service_name |-> calls[c].service,
                    tool_name |-> calls[c].tool]
             /\ calls'[c].service = calls[c].service
             /\ calls'[c].tool = calls[c].tool
      ]_vars

\* A call to lisflood has returned the result of a polled execution.
C14_Witness ==
    \E c \in CallIds :
        /\ calls[c].pc = "done"
        /\ calls[c].response = "completed"
        /\ calls[c].result.data = "result"
        /\ calls[c].result.execution_id = "x"
        /\ calls[c].result.service_name = "lisflood"
        /\ calls[c].result.tool_name = "lisflood_flood_risk_assessment"

\* C15: a call that returned because the tool completed with result r, be it
\* in the answer to /execute or in the answer to a status poll, has returned
\* success = True with r as data.
C15_SameResultOnBothPaths ==
    \A c \in CallIds :
        (calls[c].pc = "done" /\ calls[c].response = "completed")
        => /\ calls[c].result.success = TRUE
           /\ calls[c].result.data = "result"

\* C16: the poll loop of a call does not go round forever: every sleep is
\* followed by the return of the call or by one more poll, of which a call
\* sends at most MaxPolls (the timeout divided by the poll interval), and a
\* poll answered with a non-terminal status by a sleep; the call that
\* returns from the sleep, its timeout elapsed, returns success = False with
\* the timeout error and the execution id.
C16_PollLoopStops ==
    [][\A c \in CallIds :
          /\ (calls[c].pc = "poll_sleep" /\ calls'[c].pc = "done")
             => /\ calls'[c].result.success = FALSE
                /\ calls'[c].result.error = "execution_timed_out"
                /\ calls'[c].result.execution_id = "x"
          /\ (calls[c].pc = "poll_sleep" /\ calls'[c] # calls[c])
             => \/ calls'[c].pc = "done"
                \/ /\ calls'[c].pc = "poll"
                   /\ calls'[c].polls = calls[c].polls + 1
                   /\ calls'[c].polls <= MaxPolls
          /\ (calls[c].pc = "poll" /\ calls'[c] # calls[c])
             => \/ calls'[c].pc = "done"
                \/ /\ calls'[c].pc = "poll_sleep"
                   /\ calls'[c].polls = calls[c].polls
      ]_vars

\* A call has returned the timeout failure of its poll loop.
C16_Witness ==
    \E c \in CallIds :
        /\ calls[c].pc = "done"
        /\ calls[c].response = "pending"
        /\ calls[c].result.error = "execution_timed_out"
        /\ calls[c].result.execution_id = "x"

\* C17: the step in which a health_check of a service gets HTTP 200 leaves
\* the service Healthy with error_count 0.
C17_SuccessfulProbeResets ==
    [][\A n \in ServiceNames :
          (/\ probes[n] = "get"
           /\ probes'[n] = "idle"
           /\ services'[n].status = "healthy")
          => services'[n].error_count = 0
      ]_vars

\* C18: the step in which a health_check of a service fails (an answer other
\* than HTTP 200, a timeout, a refused connection) increments error_count by
\* one and leaves the service Unhealthy if the count has reached max_errors
\* and Degraded otherwise.
C18_FailedProbeCounts ==
    [][\A n \in ServiceNames :
          (/\ probes[n] = "get"
           /\ probes'[n] = "idle"
           /\ services'[n].status # "healthy")
          => /\ services'[n].error_count = services[n].error_count + 1
             /\ services'[n].status =
                   IF services'[n].error_count >= max_errors
                   THEN "unhealthy" ELSE "degraded"
      ]_vars

\* C19: the step in which a call that sent its POST returns leaves the
\* registry entry of its service Healthy with error_count 0 if the result
\* has success = True, and with a status that is not newly Healthy and an
\* error_count that is not lower if the result has success = False.
C19_OutcomeReported ==
    [][\A c \in CallIds :
          (/\ calls[c].pc \in {"post", "poll", "poll_sleep"}
           /\ calls'[c].pc = "done")
          => LET n == calls[c].service IN
             IF calls'[c].result.success
             THEN /\ services'[n].status = "healthy"
                  /\ services'[n].error_count = 0
             ELSE /\ services'[n].error_count >= services[n].error_count
                  /\ services'[n].status = "healthy"
                        => services[n].status = "healthy"
      ]_vars

C26_HealthLoopNeverStops ==
    /\ [](health_checker.pc \in {"created", "get", "sleep"})
    /\ \A k \in 1..Len(ServiceOrder) :
          []<>(health_checker.pc = "get" /\ health_checker.pos = k)
    /\ []<>(health_checker.pc = "sleep")

\* The loop sleeps after a cycle in which every probe failed.
C26_Witness ==
    /\ health_checker.pc = "sleep"
    /\ \A n \in ServiceNames : services[n].status = "unhealthy"
    /\ \A n \in ServiceNames : probes[n] = "idle"

\* No step of the instance can ever be eligible: every step waits for
\* another one.
NeverEligible(i) ==
    \A k \in DOMAIN StepsOf(i) : StepsOf(i)[k].dependencies # {}

\* C27: for an instance in which no step is ever eligible, execute_workflow
\* is never waiting for a handler or for another pass: it has returned after
\* its first scan pass, which dispatched nothing, with the instance Failed;
\* and every step of the instance is Pending.
C27_DeadlockFailsInFirstPass ==
    \A i \in Instances :
        NeverEligible(i) =>
            /\ \A k \in DOMAIN StepsOf(i) : StepsOf(i)[k].status = "pending"
            /\ exec[i].pc \in {"idle", "returned"}
            /\ exec[i].pc = "returned" =>
                  /\ workflow_instances[i].status = "failed"
                  /\ exec[i].passes = 1
                  /\ exec[i].dispatched = 0
                  /\ exec[i].completed_steps = {}

\* execute_workflow has returned for an instance whose three steps wait
\* for each other in a ring.
C27_Witness ==
    \E i \in Instances :
        /\ \A k \in DOMAIN StepsOf(i) :
              Cardinality(StepsOf(i)[k].dependencies) = 1
        /\ HasCycle(StepsOf(i))
        /\ exec[i].pc = "returned"
        /\ workflow_instances[i].status = "failed"

\* C28: a step changes the registry entry of a service only if it is the
\* step of a health_check of that service or of a call_service call made
\* with the name of that service.
C28_OnlyTheNamedEntryChanges ==
    [][\A n \in ServiceNames :
          services'[n] # services[n] =>
              \/ probes[n] = "get" /\ probes'[n] = "idle"
              \/ \E c \in CallIds :
                    /\ calls'[c] # calls[c]
                    /\ calls'[c].service = n
      ]_vars

\* Failed probes and failed calls have made one service Unhealthy, and the
\* other one is as it was left by its own successful call.
C28_Witness ==
    \E a, b \in ServiceNames :
        /\ a # b
        /\ services[a].status = "unhealthy"
        /\ services[a].error_count > 0
        /\ services[b].status = "healthy"
        /\ services[b].error_count = 0
        /\ probes[a] = "idle"
        /\ \E c \in CallIds : calls[c].pc = "done" /\ calls[c].service = a

C30_RemoteFailureIsFailure ==
    \A c \in CallIds :
        calls[c].pc = "done" =>
            /\ calls[c].result.success = TRUE => calls[c].response = "completed"
            /\ calls[c].response = "failed" =>
                  /\ calls[c].result.success = FALSE
                  /\ calls[c].result.error = "execution_failed"

\* C31: the first status poll of a call that fails (an answer other than
\* HTTP 200, or an exception of the GET) does not end the call: the call is
\* still in its poll loop.
C31_FailedPollTolerated ==
    [][\A c \in CallIds :
          (/\ calls[c].pc = "poll"
           /\ calls[c].polls = 1
           /\ calls'[c].response \in {"http_error", "exception"})
          => calls'[c].pc \in {"poll", "poll_sleep"}
      ]_vars

\* C32: an instance that is Cancelled is Cancelled in the next state too,
\* whatever the step is.
C32_CancelledStaysCancelled ==
    [][\A i \in Instances :
          workflow_instances[i].status = "cancelled"
              => workflow_instances'[i].status = "cancelled"
      ]_vars

\* C33: the handler of a step is invoked (the step becomes Running) only
\* while the step is Pending, that is, while it has never been invoked.
C33_HandlerInvokedOnce ==
    [][\A i \in Instances : \A k \in DOMAIN StepsOf(i) :
          (/\ StepsOf(i)[k].status # "running"
           /\ workflow_instances'[i].steps[k].status = "running")
          => StepsOf(i)[k].status = "pending"
      ]_vars

\* C34: in every state of the registry a service is Unhealthy exactly if
\* its error_count is at least max_errors.
C34_UnhealthyIffThreshold ==
    \A n \in ServiceNames :
        services[n].status = "unhealthy" <=> services[n].error_count >= max_errors

\* C35: a cancel_workflow call returns False and changes no instance and
\* no execution if its argument is not the id of an instance or the
\* instance is Completed or Failed; for any other instance it returns True
\* and leaves the instance Cancelled, its steps as they were.
C35_CancelReturnAndFrame ==
    [][cancel_call' # cancel_call =>
          LET i == cancel_call'.instance_id
          IN  IF \/ i \notin Instances
                 \/ workflow_instances[i].status \in {"completed", "failed"}
              THEN /\ ~cancel_call'.returned
                   /\ workflow_instances' = workflow_instances
                   /\ exec' = exec
              ELSE /\ cancel_call'.returned
                   /\ workflow_instances' =
                         [workflow_instances EXCEPT ![i].status = "cancelled"]
                   /\ exec' = exec
      ]_vars

\* cancel_workflow has returned False for a Completed instance.
C35_Witness ==
    /\ cancel_call.called
    /\ ~cancel_call.returned
    /\ cancel_call.instance_id \in Instances
    /\ workflow_instances[cancel_call.instance_id].status = "completed"
    /\ exec[cancel_call.instance_id].pc = "returned"

\* C36: an execute_tool call with wait_for_completion=True that has sent
\* its request always eventually returns.
C36_ExecuteToolReturns ==
    (/\ tool_call.entry = "execute_tool"
     /\ tool_call.wait_for_completion
     /\ tool_call.pc \in {"post", "poll", "sleep"})
    ~> (tool_call.pc = "done")

\* C37: at most one process of a service is running at any time.
C37_OneLiveProcessPerService ==
    \A n \in ModelServiceNames : Live(model_services[n]) <= 1

====
